---- MODULE Spec2Model ----
(***************************************************************************)
(* PsychHID('SetReport', deviceNumber, reportType, reportID, report)       *)
(* as implemented by PSYCHHIDSetReport() in                                *)
(* PsychSourceGL/Source/Common/PsychHID/PsychHIDSetReport.c.               *)
(*                                                                         *)
(* The action PSYCHHIDSetReport is one complete call of the function.      *)
(* The state that outlives a call is the function-static scratchBuffer,    *)
(* the process-wide AInScanStart and the precision timer.  The remaining   *)
(* variables record what the call was given and what it did: the           *)
(* arguments, the caller's buffer after the call, how the call ended, the  *)
(* returned struct, the backend operations it invoked, the timestamps it   *)
(* captured, the codes it handed to PsychHIDErrors and the scratchBuffer   *)
(* indices it wrote.  The action ReturnToInterpreter is the interpreter    *)
(* taking the result: the call's record goes, the lasting state stays.     *)
(*                                                                         *)
(* Byte arrays: the caller's report is a sequence, so C index i is         *)
(* sequence index i + 1; scratchBuffer is a function on the C indices      *)
(* 0 .. MAXREPORTSIZE.                                                     *)
(***************************************************************************)
EXTENDS Integers, Sequences, FiniteSets

VARIABLES
    PSYCH_SYSTEM,   \* the build: "OSX" (IOKit) or "OTHER" (HIDAPI), fixed
    scratchBuffer,  \* static unsigned char scratchBuffer[MAXREPORTSIZE+1]
    AInScanStart,   \* extern double AInScanStart
    timer,          \* the time PsychGetPrecisionTimerSeconds last read
    args,           \* the arguments of the last call
    reportBuffer,   \* the caller's report array after the last call
    outcome,        \* "idle" before any call, "returned", or the abort taken
    outErr,         \* <<>> or <<[n, name, description]>>: the returned struct
    backendCalls,   \* the backend operations the last call invoked, in order
    stamps,         \* the times the last call wrote into AInScanStart
    lookups,        \* the codes the last call handed to PsychHIDErrors
    scratchWritten  \* the scratchBuffer indices the last call wrote

vars == <<PSYCH_SYSTEM, scratchBuffer, AInScanStart, timer, args, reportBuffer,
          outcome, outErr, backendCalls, stamps, lookups, scratchWritten>>

----------------------------------------------------------------------------
(* Bounds of the model *)

\* Stand-in for MAXREPORTSIZE of PsychHID.h, scaled down.
MAXREPORTSIZE == 3

\* A behaviour makes at most this many calls.
MaxCalls == 3

(* Program constants *)

\* The report ID that starts an analog input scan (0x11).
AInScanReportID == 17

\* The timeout, in ms, handed to IOKit's setReport.
SetReportTimeoutMs == 50

(* Inputs *)

Systems == {"OSX", "OTHER"}

\* Bytes a caller puts in a report.
Bytes == {0, 170}

\* reportType: negative, 0 = echo, 1 = input, 2 = output, 3 = feature, too big.
ReportTypes == {-1, 0, 1, 2, 3, 4}

\* reportID: none, an ordinary one, the scan start, the largest, and one
\* above 255 whose low byte is zero.
ReportIDs == {0, 5, 17, 255, 256}

\* What deviceIndex resolves to: an open device, a device record without a
\* usable interface, or no device at all.  The interface pointer is looked
\* up, and can be NULL, on OSX only.
DeviceStates(system) ==
    IF system = "OSX" THEN {"open", "nointerface", "invalid"}
    ELSE {"open", "invalid"}

\* Reports of every length from empty to one byte too long.
Reports == UNION {[1..n -> Bytes] : n \in 0..(MAXREPORTSIZE + 1)}

\* What a backend transmit returns: IOKit an IOReturn (0 is success), HIDAPI
\* -1 or the number of bytes written.
BackendReturns(size) == {-1, 0, size}

----------------------------------------------------------------------------
(* The steps of PSYCHHIDSetReport *)

\* Mutant: the size check is off by one.
ReportTooLarge_OffByOne(reportSize) == reportSize >= MAXREPORTSIZE

ReportTooLarge(reportSize) == reportSize > MAXREPORTSIZE

ReportEmpty(reportSize) == reportSize < 1

\* Mutant: input reports (type 1) are let through.
InvalidReportType_InputAllowed(reportType) ==
    reportType < 0 \/ reportType > 3

\* Mutant: negative types are let through.
InvalidReportType_NegativeAllowed(reportType) ==
    reportType > 3 \/ reportType = 1

InvalidReportType(reportType) ==
    reportType < 0 \/ reportType > 3 \/ reportType = 1

\* The three checks in the order the code makes them.
Validate(reportSize, reportType) ==
    IF ReportTooLarge(reportSize) THEN "SizeError"
    ELSE IF ReportEmpty(reportSize) THEN "EmptyReportError"
    ELSE IF InvalidReportType(reportType) THEN "InvalidTypeError"
    ELSE "ok"

\* 0xff & reportID, for a two's complement int.
LowByte(reportID) == reportID % 256

\* Mutant: the report ID is not written into the report.
InjectReportID_Skipped(buf, reportID) == buf

\* if (reportID != 0) *reportBuffer = 0xff & reportID;
InjectReportID(buf, reportID) ==
    IF reportID # 0 THEN [buf EXCEPT ![1] = LowByte(reportID)] ELSE buf

\* Mutant: the echo branch is taken for type 1 instead of type 0.
IsEcho_WrongType(reportType) == reportType = 1

\* if (reportType == 0)
IsEcho(reportType) == reportType = 0

\* Mutant: reportSize++ is forgotten after the framing.
FrameZeroID_NoGrow(scratch, buf, reportSize) ==
    [scratch |-> [i \in DOMAIN scratch |->
                    IF i = 0 THEN 0
                    ELSE IF i \in 1..reportSize THEN buf[i]
                    ELSE scratch[i]],
     written |-> {0} \cup (1..reportSize),
     size    |-> reportSize]

\* Mutant: the memcpy copies one byte too few.
FrameZeroID_ShortCopy(scratch, buf, reportSize) ==
    [scratch |-> [i \in DOMAIN scratch |->
                    IF i = 0 THEN 0
                    ELSE IF i \in 1..(reportSize - 1) THEN buf[i]
                    ELSE scratch[i]],
     written |-> {0} \cup (1..(reportSize - 1)),
     size    |-> reportSize + 1]

\* The HIDAPI branch's zero-reportID framing: memcpy the report behind a zero
\* byte in scratchBuffer and send from there, one byte longer.  Yields the new
\* scratchBuffer, the indices written, and the length handed on.
FrameZeroID(scratch, buf, reportSize) ==
    LET written == {0} \cup (1..reportSize)
    IN  [scratch |-> [i \in DOMAIN scratch |->
                        IF i = 0 THEN 0
                        ELSE IF i \in 1..reportSize THEN buf[i]
                        ELSE scratch[i]],
         written |-> written,
         size    |-> reportSize + 1]

\* The bytes a backend reads from scratchBuffer when given `size` bytes of it.
ScratchBytes(scratch, size) ==
    [i \in 1..size |-> scratch[i - 1]]

\* Mutant: every report goes out through hid_write.
HidOperation_AlwaysWrite(reportType) == "hid_write"

\* Which HIDAPI operation a report type selects.
HidOperation(reportType) ==
    IF reportType = 2 THEN "hid_write" ELSE "hid_send_feature_report"

\* Mutant: the timestamp is taken for report ID 0x10.
TimestampDue_WrongID(reportID) == reportID = AInScanReportID - 1

\* if (reportID == 0x11) PsychGetPrecisionTimerSeconds(&AInScanStart);
TimestampDue(reportID) == reportID = AInScanReportID

\* Mutant: the byte count is returned as it is.
NormalizeError_None(error) == error

\* if (error >= 0) error = 0;
NormalizeError(error) == IF error >= 0 THEN 0 ELSE error

\* PsychHIDErrors: the name and description of an error code.
PsychHIDErrors(error) ==
    IF error = 0 THEN [name |-> "", description |-> ""]
    ELSE [name |-> "error", description |-> "described"]

\* The struct built by PsychAllocOutStructArray and the three setters.
OutStruct(error, strings) ==
    <<[n |-> error, name |-> strings.name, description |-> strings.description]>>

\* PsychHIDGetDeviceRecordPtrFromIndex returns for a known device and exits
\* with an error for any other index.
PsychHIDGetDeviceRecordPtrFromIndex(device) == device # "invalid"

\* PsychHIDGetDeviceInterfacePtrFromIndex: non-NULL for a usable interface.
PsychHIDGetDeviceInterfacePtrFromIndex(device) == device = "open"

----------------------------------------------------------------------------

\* The values the variables take.
TypeOK ==
    /\ PSYCH_SYSTEM \in Systems
    /\ scratchBuffer \in [0..MAXREPORTSIZE -> 0..255]
    /\ AInScanStart \in 0..MaxCalls
    /\ timer \in 0..MaxCalls
    /\ args \in [device : DeviceStates(PSYCH_SYSTEM), reportType : ReportTypes,
                 reportID : ReportIDs, report : Reports]
    /\ reportBuffer \in Seq(0..255) /\ Len(reportBuffer) = Len(args.report)
    /\ outcome \in {"idle", "returned", "SizeError", "EmptyReportError",
                    "InvalidTypeError", "DeviceError", "BadInterface"}
    /\ Len(outErr) = IF outcome = "returned" THEN 1 ELSE 0
    /\ Len(backendCalls) \in {0, 1}
    /\ Len(stamps) \in {0, 1}
    /\ Len(lookups) \in {0, 1}
    /\ scratchWritten \subseteq 0..(MAXREPORTSIZE + 1)

\* No call is in progress and none is on record.
NoCall ==
    /\ args = [device |-> "open", reportType |-> 0, reportID |-> 0, report |-> <<>>]
    /\ reportBuffer = <<>>
    /\ outcome = "idle"
    /\ outErr = <<>>
    /\ backendCalls = <<>>
    /\ stamps = <<>>
    /\ lookups = <<>>
    /\ scratchWritten = {}

Init ==
    /\ PSYCH_SYSTEM \in Systems
    /\ scratchBuffer = [i \in 0..MAXREPORTSIZE |-> 0]
    /\ AInScanStart = 0
    /\ timer = 0
    /\ NoCall

\* A call that PsychErrorExitMsg or PrintfExit ends: nothing is returned.
Abort(why, buf) ==
    /\ outcome' = why
    /\ reportBuffer' = buf
    /\ outErr' = <<>>
    /\ backendCalls' = <<>>
    /\ stamps' = <<>>
    /\ lookups' = <<>>
    /\ scratchWritten' = {}
    /\ UNCHANGED <<scratchBuffer, AInScanStart>>

\* The echo branch: print the arguments, error = 0, name and description
\* keep their initial "".
EchoReport(buf) ==
    /\ outcome' = "returned"
    /\ reportBuffer' = buf
    /\ outErr' = OutStruct(0, [name |-> "", description |-> ""])
    /\ backendCalls' = <<>>
    /\ stamps' = <<>>
    /\ lookups' = <<>>
    /\ scratchWritten' = {}
    /\ UNCHANGED <<scratchBuffer, AInScanStart>>

\* What follows the transmit in both backends: the timestamp, the error
\* lookup, the returned struct.
Finish(buf, reportID, call, error) ==
    /\ outcome' = "returned"
    /\ reportBuffer' = buf
    /\ backendCalls' = <<call>>
    /\ IF TimestampDue(reportID)
         THEN AInScanStart' = timer' /\ stamps' = <<timer'>>
         ELSE UNCHANGED AInScanStart /\ stamps' = <<>>
    /\ lookups' = <<error>>
    /\ outErr' = OutStruct(error, PsychHIDErrors(error))

\* #if PSYCH_SYSTEM == PSYCH_OSX
SetReportOSX(in, buf, ret) ==
    IF ~PsychHIDGetDeviceInterfacePtrFromIndex(in.device)
    THEN Abort("BadInterface", buf)
    ELSE /\ Finish(buf, in.reportID,
                   [op |-> "setReport", reportType |-> in.reportType - 1,
                    reportID |-> in.reportID, data |-> buf, size |-> Len(buf),
                    timeoutMs |-> SetReportTimeoutMs, ret |-> ret],
                   ret)
         /\ scratchWritten' = {}
         /\ UNCHANGED scratchBuffer

\* #else
SetReportHIDLIB(in, buf, ret) ==
    LET framed == FrameZeroID(scratchBuffer, buf, Len(buf))
        zero   == in.reportID = 0
        data   == IF zero THEN ScratchBytes(framed.scratch, framed.size) ELSE buf
    IN  /\ scratchBuffer' = IF zero THEN framed.scratch ELSE scratchBuffer
        /\ scratchWritten' = IF zero THEN framed.written ELSE {}
        /\ Finish(buf, in.reportID,
                  [op |-> HidOperation(in.reportType), data |-> data,
                   size |-> Len(data), fromScratch |-> zero, ret |-> ret],
                  NormalizeError(ret))

PSYCHHIDSetReport ==
    /\ outcome = "idle"
    /\ timer < MaxCalls
    /\ timer' = timer + 1
    /\ UNCHANGED PSYCH_SYSTEM
    /\ \E in \in [device : DeviceStates(PSYCH_SYSTEM), reportType : ReportTypes,
                  reportID : ReportIDs, report : Reports] :
         /\ args' = in
         /\ LET verdict == Validate(Len(in.report), in.reportType)
                buf     == InjectReportID(in.report, in.reportID)
            IN  IF verdict # "ok" THEN Abort(verdict, in.report)
                ELSE IF ~PsychHIDGetDeviceRecordPtrFromIndex(in.device)
                     THEN Abort("DeviceError", in.report)
                ELSE IF IsEcho(in.reportType) THEN EchoReport(buf)
                ELSE \E ret \in BackendReturns(Len(buf)) :
                        IF PSYCH_SYSTEM = "OSX"
                        THEN SetReportOSX(in, buf, ret)
                        ELSE SetReportHIDLIB(in, buf, ret)

\* The interpreter takes the result (or the error) of the call.
ReturnToInterpreter ==
    /\ outcome # "idle"
    /\ args' = [device |-> "open", reportType |-> 0, reportID |-> 0, report |-> <<>>]
    /\ reportBuffer' = <<>>
    /\ outcome' = "idle"
    /\ outErr' = <<>>
    /\ backendCalls' = <<>>
    /\ stamps' = <<>>
    /\ lookups' = <<>>
    /\ scratchWritten' = {}
    /\ UNCHANGED <<PSYCH_SYSTEM, scratchBuffer, AInScanStart, timer>>

Next == PSYCHHIDSetReport \/ ReturnToInterpreter

Spec == Init /\ [][Next]_vars

----------------------------------------------------------------------------
(* Properties *)

\* The arguments of the call on record fail one of the three checks.
ValidationFails ==
    \/ Len(args.report) > MAXREPORTSIZE
    \/ Len(args.report) < 1
    \/ args.reportType \notin {0, 2, 3}

\* The call on record was to transmit: valid arguments, type 2 or 3, and a
\* device index that resolves to an open device with a usable interface.
Transmitting ==
    /\ outcome # "idle"
    /\ ~ValidationFails
    /\ args.reportType \in {2, 3}
    /\ args.device = "open"

\* C1: for reportType 2 or 3, reportID in 1..255 and a report of valid
\* length, the buffer handed to the backend starts with reportID & 0xFF, is
\* as long as the caller's report, and agrees with it from index 1 on.
C1_ReportIDInFirstByte ==
    (Transmitting /\ args.reportID \in 1..255) =>
        /\ Len(backendCalls) = 1
        /\ backendCalls[1].size = Len(args.report)
        /\ Len(backendCalls[1].data) = Len(args.report)
        /\ backendCalls[1].data[1] = args.reportID % 256
        /\ \A i \in 2..Len(args.report) :
              backendCalls[1].data[i] = args.report[i]

\* C1 witness: reportID 5 sent as a feature report over <<0, 170, 0>>.
C1_Witness ==
    /\ Transmitting
    /\ args.reportType = 3
    /\ args.reportID = 5
    /\ args.report = <<0, 170, 0>>
    /\ backendCalls[1].data = <<5, 170, 0>>
    /\ reportBuffer = <<5, 170, 0>>

\* C2: for reportID 0 and reportType 2 or 3 the caller's buffer is unchanged
\* after the call; HIDAPI is handed a zero byte followed by the caller's
\* bytes (one byte longer), IOKit exactly the caller's bytes.
C2_ZeroIDFraming ==
    (Transmitting /\ args.reportID = 0) =>
        /\ reportBuffer = args.report
        /\ Len(backendCalls) = 1
        /\ IF PSYCH_SYSTEM = "OTHER"
             THEN /\ backendCalls[1].data = <<0>> \o args.report
                  /\ backendCalls[1].size = Len(args.report) + 1
             ELSE /\ backendCalls[1].data = args.report
                  /\ backendCalls[1].size = Len(args.report)

\* C2 witness: <<170, 0>> written with reportID 0 through HIDAPI.
C2_Witness ==
    /\ Transmitting
    /\ PSYCH_SYSTEM = "OTHER"
    /\ args.reportType = 2
    /\ args.reportID = 0
    /\ args.report = <<170, 0>>
    /\ backendCalls[1].op = "hid_write"
    /\ backendCalls[1].data = <<0, 170, 0>>

\* C3 as claimed: every returning call with reportID 0x11 captures exactly
\* one timestamp, whatever the reportType (0, 2 or 3).
C3_StampWhateverType ==
    (outcome = "returned" /\ args.reportID = AInScanReportID) =>
        Len(stamps) = 1

\* C3 as amended: a returning call with reportID 0x11 captures exactly one
\* timestamp into AInScanStart when its reportType is 2 or 3, whether the
\* transmission succeeded or failed, and none when it is an echo.
C3_StampWhenTransmitted ==
    (outcome = "returned" /\ args.reportID = AInScanReportID) =>
        IF args.reportType \in {2, 3}
        THEN /\ Len(stamps) = 1
             /\ AInScanStart = stamps[1]
             /\ stamps[1] = timer
        ELSE stamps = <<>>

\* C3 witness: a failed transmission with reportID 0x11, stamped.
C3_Witness ==
    /\ outcome = "returned"
    /\ args.reportID = AInScanReportID
    /\ args.reportType = 2
    /\ backendCalls[1].ret < 0
    /\ stamps = <<timer>>
    /\ AInScanStart = timer

\* C4: an echo call (reportType 0) with a report of valid length invokes no
\* backend operation and, its device index resolving, returns n = 0 with
\* empty name and description.
C4_EchoSendsNothing ==
    (outcome # "idle" /\ args.reportType = 0
        /\ Len(args.report) \in 1..MAXREPORTSIZE) =>
        /\ backendCalls = <<>>
        /\ args.device # "invalid" =>
              /\ outcome = "returned"
              /\ outErr = <<[n |-> 0, name |-> "", description |-> ""]>>

\* C4 witness: an echo of a full-length report with a nonzero reportID.
C4_Witness ==
    /\ outcome = "returned"
    /\ args.reportType = 0
    /\ args.reportID = 255
    /\ Len(args.report) = MAXREPORTSIZE
    /\ outErr[1].n = 0
    /\ backendCalls = <<>>

\* C5 as claimed: every call with a reportType outside {0, 2, 3} fails with
\* the invalid-report-type error and invokes no backend operation.
C5_InvalidTypeAlways ==
    (outcome # "idle" /\ args.reportType \notin {0, 2, 3}) =>
        /\ outcome = "InvalidTypeError"
        /\ backendCalls = <<>>

\* C5 as amended: a call with a reportType outside {0, 2, 3} always aborts
\* with no backend operation invoked; the error is the invalid-report-type
\* error when the report length is in 1..MAXREPORTSIZE, and the size or
\* empty-report error, checked first, otherwise.
C5_InvalidTypeRejected ==
    (outcome # "idle" /\ args.reportType \notin {0, 2, 3}) =>
        /\ backendCalls = <<>>
        /\ outErr = <<>>
        /\ outcome = IF Len(args.report) > MAXREPORTSIZE THEN "SizeError"
                     ELSE IF Len(args.report) < 1 THEN "EmptyReportError"
                     ELSE "InvalidTypeError"

\* C5 witness: an input report (type 1) of valid length is rejected.
C5_Witness ==
    /\ outcome = "InvalidTypeError"
    /\ args.reportType = 1
    /\ Len(args.report) = 1
    /\ args.device = "open"

\* C6: an empty report fails with the empty-report error, a report longer
\* than MAXREPORTSIZE with the size error; a report of exactly MAXREPORTSIZE
\* bytes passes, and the call returns given an open device and a valid
\* reportType; one of MAXREPORTSIZE + 1 bytes fails.
C6_LengthBoundaries ==
    outcome # "idle" =>
        /\ Len(args.report) = 0 => outcome = "EmptyReportError"
        /\ Len(args.report) > MAXREPORTSIZE => outcome = "SizeError"
        /\ Len(args.report) = MAXREPORTSIZE + 1 => outcome = "SizeError"
        /\ Len(args.report) = MAXREPORTSIZE =>
              /\ outcome \notin {"SizeError", "EmptyReportError"}
              /\ (args.device = "open" /\ args.reportType \in {0, 2, 3}) =>
                    outcome = "returned"

\* C6 witness: a report of exactly MAXREPORTSIZE bytes is transmitted.
C6_Witness ==
    /\ outcome = "returned"
    /\ Len(args.report) = MAXREPORTSIZE
    /\ args.reportType = 2
    /\ Len(backendCalls) = 1

\* C7: a call that invoked the backend returns a struct, never aborts, and
\* its n is 0 exactly when the transmission succeeded: through HIDAPI every
\* return >= 0 gives n = 0 and every negative return is n and the code
\* looked up; through IOKit n is the IOReturn.
C7_ErrorNormalized ==
    backendCalls # <<>> =>
        /\ outcome = "returned"
        /\ Len(outErr) = 1
        /\ Len(backendCalls) = 1
        /\ IF PSYCH_SYSTEM = "OTHER"
             THEN /\ backendCalls[1].ret >= 0 => outErr[1].n = 0
                  /\ backendCalls[1].ret < 0 =>
                        /\ outErr[1].n = backendCalls[1].ret
                        /\ lookups = <<backendCalls[1].ret>>
             ELSE /\ outErr[1].n = backendCalls[1].ret
                  /\ lookups = <<backendCalls[1].ret>>

\* C7 witness: HIDAPI reports a positive byte count and n is 0.
C7_Witness ==
    /\ PSYCH_SYSTEM = "OTHER"
    /\ Len(backendCalls) = 1
    /\ backendCalls[1].ret > 0
    /\ outErr[1].n = 0

\* C8: a call that fails validation changes nothing: the caller's buffer,
\* AInScanStart and scratchBuffer stay as they were and no backend operation
\* is invoked.
C8_FailedValidationNoEffect ==
    [][(outcome = "idle" /\ outcome' # "idle" /\ ValidationFails') =>
          /\ reportBuffer' = args'.report
          /\ AInScanStart' = AInScanStart
          /\ scratchBuffer' = scratchBuffer
          /\ scratchWritten' = {}
          /\ stamps' = <<>>
          /\ backendCalls' = <<>>
          /\ outErr' = <<>>]_vars

\* C8 witness: an oversized report with reportID 0x11 and a nonzero first
\* byte is rejected after earlier calls filled scratchBuffer and stamped
\* AInScanStart.
C8_Witness ==
    /\ outcome = "SizeError"
    /\ args.reportID = AInScanReportID
    /\ args.report[1] = 170
    /\ reportBuffer = args.report
    /\ AInScanStart > 0
    /\ AInScanStart < timer
    /\ scratchBuffer[1] # 0

\* C9: a call to transmit invokes the backend exactly once, whatever it
\* returns: through HIDAPI hid_write for type 2 and hid_send_feature_report
\* for type 3; through IOKit setReport with type reportType - 1 and a 50 ms
\* timeout.  No call invokes the backend more than once.
C9_OneTransmit ==
    /\ Len(backendCalls) <= 1
    /\ Transmitting =>
          /\ Len(backendCalls) = 1
          /\ IF PSYCH_SYSTEM = "OTHER"
               THEN backendCalls[1].op =
                        IF args.reportType = 2 THEN "hid_write"
                        ELSE "hid_send_feature_report"
               ELSE /\ backendCalls[1].op = "setReport"
                    /\ backendCalls[1].reportType = args.reportType - 1
                    /\ backendCalls[1].reportID = args.reportID
                    /\ backendCalls[1].timeoutMs = SetReportTimeoutMs

\* C9 witness: a feature report that fails is sent once.
C9_Witness ==
    /\ Transmitting
    /\ PSYCH_SYSTEM = "OTHER"
    /\ args.reportType = 3
    /\ Len(backendCalls) = 1
    /\ backendCalls[1].op = "hid_send_feature_report"
    /\ backendCalls[1].ret < 0

\* C10: through HIDAPI no call writes scratchBuffer outside its
\* MAXREPORTSIZE + 1 bytes, and every scratchBuffer byte handed to the
\* backend was written by the same call.
C10_ScratchInBoundsAndFresh ==
    /\ scratchWritten \subseteq 0..MAXREPORTSIZE
    /\ DOMAIN scratchBuffer = 0..MAXREPORTSIZE
    /\ (PSYCH_SYSTEM = "OTHER" /\ backendCalls # <<>>
          /\ backendCalls[1].fromScratch) =>
          /\ backendCalls[1].size <= MAXREPORTSIZE + 1
          /\ 0..(backendCalls[1].size - 1) \subseteq scratchWritten

\* C10 witness: a one-byte report framed after a call that left a full
\* scratchBuffer behind.
C10_Witness ==
    /\ PSYCH_SYSTEM = "OTHER"
    /\ backendCalls # <<>>
    /\ backendCalls[1].fromScratch
    /\ backendCalls[1].size < MAXREPORTSIZE + 1
    /\ scratchBuffer[MAXREPORTSIZE] # 0

====
